---- MODULE Spec2Model ----
(***************************************************************************)
(* Model of the seller-apis repository: seller.py (Ozon) and market.py     *)
(* (Yandex Market).  The pure helpers (price_conversion, divide,           *)
(* create_stocks, create_prices) are operators computed the way the Python *)
(* code computes them; get_offer_ids, the upload helpers and the two main  *)
(* entry points are a state machine with one action per statement group.   *)
(*                                                                         *)
(* Strings the code inspects character by character (quantities, prices)   *)
(* are sequences of one-character strings; offer IDs / codes are opaque.   *)
(* The Cyrillic currency suffix of a price is written with the letters     *)
(* r, u, b.                                                                *)
(***************************************************************************)
EXTENDS Integers, Sequences, FiniteSets, TLC

VARIABLES
    entry,          \* the function of the repository that is being run
    pc,             \* position inside that function
    campaign,       \* "ozon", or the Yandex campaign in hand: "fbs" / "dbs"
    feed,           \* the remnants published at the feed URL (environment)
    server,         \* campaign -> the catalog the marketplace serves (environment)
    watch_remnants, \* local: the remnants list
    offer_ids,      \* local: the offer ID list (create_stocks consumes it)
    page,           \* local: last_id (Ozon) / page token (Yandex)
    some_prod,      \* local: the "result" object of the last page response
    product_list,   \* local: accumulated catalog items
    stocks,         \* local: stock entries
    prices,         \* local: price entries
    batches,        \* the chunks of list(divide(...)) not yet iterated
    calls,          \* history: every marketplace API call made, in order
    exc,            \* the exception in flight / raised, or "none"
    printed,        \* what main printed
    coroutines,     \* coroutine objects created and never awaited
    arg,            \* the arguments the entry function was called with
    ret,            \* its return value
    file,           \* ./ostatki.xls in the working directory: its rows, or absent
    suspended,      \* the locals of the other main when two run together, in a list
    clock           \* the UTC clock, in whole seconds

vars == <<entry, pc, campaign, feed, server, watch_remnants, offer_ids, page,
          some_prod, product_list, stocks, prices, batches, calls, exc,
          printed, coroutines, arg, ret, file, suspended, clock>>

(***************************************************************************)
(* Bounds of the model.  The batch sizes and page limits of the code (100, *)
(* 900, 1000, 2000, 500 entries per update call; 1000 / 200 items per      *)
(* catalog page) are scaled down so that lists of a few entries span       *)
(* several batches and pages.                                              *)
(***************************************************************************)
MaxRecords == 2         \* longest remnants list
MaxCatalog == 3         \* most offers in a catalog
MaxPriceLen == 4        \* longest string handed to price_conversion alone
MaxList == 4            \* longest list handed to divide alone
MaxBatch == 3           \* largest batch size handed to divide alone
OzonStockBatch == 2     \* stands for 100  (seller.py:404, seller.py:419)
OzonPriceBatch == 2     \* stands for 900  (seller.py:423)
OzonUploadPriceBatch == 2   \* stands for 1000 (seller.py:362)
MarketStockBatch == 2   \* stands for 2000 (market.py:347, 369, 378)
MarketPriceBatch == 2   \* stands for 500  (market.py:313)
OzonPageLimit == 2      \* stands for 1000 (seller.py:48)
MarketPageLimit == 2    \* stands for 200  (market.py:46)
MaxClock == 1           \* seconds that pass during a run

Min(a, b) == IF a < b THEN a ELSE b

(***************************************************************************)
(* Data                                                                    *)
(***************************************************************************)
IdPool == <<"a", "b", "c", "d", "e">>
Ids == { IdPool[i] : i \in 1..Min(MaxCatalog, Len(IdPool)) }   \* codes / offer IDs

Digit == {"0", "1", "2", "3", "4", "5", "6", "7", "8", "9"}

DigitValue(c) ==
    CASE c = "0" -> 0 [] c = "1" -> 1 [] c = "2" -> 2 [] c = "3" -> 3
      [] c = "4" -> 4 [] c = "5" -> 5 [] c = "6" -> 6 [] c = "7" -> 7
      [] c = "8" -> 8 [] c = "9" -> 9

\* Python's int() of a string of digits, most significant first.
RECURSIVE DigitsToInt(_)
DigitsToInt(d) ==
    IF d = <<>> THEN 0
    ELSE 10 * DigitsToInt(SubSeq(d, 1, Len(d) - 1)) + DigitValue(d[Len(d)])

\* int(watch.get("Kolichestvo")) for a literal numeric string, sign included.
ParseInt(s) ==
    IF Head(s) = "-" THEN 0 - DigitsToInt(Tail(s))
    ELSE IF Head(s) = "+" THEN DigitsToInt(Tail(s))
    ELSE DigitsToInt(s)

\* The quantities the feed carries: the two sentinels and numeric literals.
GT10 == <<">", "1", "0">>
ONE == <<"1">>
Quantities == { GT10, ONE, <<"1", "2">>, <<"-", "2">> }

\* Prices as the feed formats them: 5'990.00 rub. / 7'500.50 rub. / 990
PriceA == <<"5", "'", "9", "9", "0", ".", "0", "0", " ", "r", "u", "b", ".">>
PriceB == <<"7", "'", "5", "0", "0", ".", "5", "0", " ", "r", "u", "b", ".">>
PriceC == <<"9", "9", "0">>
Prices == {PriceA, PriceB, PriceC}

\* One row of the spreadsheet: the columns the code reads.
Record(code, quantity, price) == [code |-> code, quantity |-> quantity, price |-> price]

\* All sequences over S of length at most n.
SeqsUpTo(S, n) == UNION { [1..k -> S] : k \in 0..n }

\* Duplicate-free sequences: an offer ID is unique in a marketplace catalog.
Injective(s) == \A i, j \in 1..Len(s) : s[i] = s[j] => i = j
Catalogs == { s \in SeqsUpTo(Ids, MaxCatalog) : Injective(s) }

\* The catalogs of the runs of main and of the upload helpers: in pool order.
PoolIndex(id) == CHOOSE i \in 1..Len(IdPool) : IdPool[i] = id
RunCatalogs ==
    { s \in Catalogs :
        \A i, j \in 1..Len(s) : i < j => PoolIndex(s[i]) < PoolIndex(s[j]) }

\* x in lst  (Python's membership test on a list)
InList(x, lst) == \E i \in 1..Len(lst) : lst[i] = x

\* Mutant of ListRemove: the matched offer ID is not consumed.
ListRemoveKeeps(lst, x) == lst

\* lst.remove(x): drops the first occurrence of x.
ListRemove(lst, x) ==
    LET i == CHOOSE k \in 1..Len(lst) : lst[k] = x /\ \A j \in 1..(k - 1) : lst[j] # x
    IN  SubSeq(lst, 1, i - 1) \o SubSeq(lst, i + 1, Len(lst))

(***************************************************************************)
(* seller.py: price_conversion and divide                                  *)
(***************************************************************************)
\* Mutant of SplitDotHead: the fractional part is not cut off.
SplitDotHeadWhole(s) == s

\* price.split(".")[0]: the part before the first "."
RECURSIVE SplitDotHead(_)
SplitDotHead(s) ==
    IF s = <<>> \/ Head(s) = "." THEN <<>>
    ELSE <<Head(s)>> \o SplitDotHead(Tail(s))

\* re.sub("[^0-9]", "", s): every character that is not 0-9 is deleted.
ReSubNonDigits(s) == SelectSeq(s, LAMBDA c : c \in Digit)

price_conversion(price) == ReSubNonDigits(SplitDotHead(price))

\* range(0, len(lst), n): 0, n, 2n, ... below len(lst)
RangeStarts(len, n) == { i \in 0..(len - 1) : i % n = 0 }

\* lst[i : i + n], i counted from 0; the slice is cut at the end of the list.
Slice(lst, i, n) == SubSeq(lst, i + 1, Min(i + n, Len(lst)))

\* Mutant of divide: the short last slice is not yielded.
divide_full_slices(lst, n) ==
    [k \in 1..(Len(lst) \div n) |-> Slice(lst, (k - 1) * n, n)]

\* list(divide(lst, n)): the slices in the order the generator yields them.
divide(lst, n) ==
    LET count == Cardinality(RangeStarts(Len(lst), n))
    IN  [k \in 1..count |-> Slice(lst, (k - 1) * n, n)]

(***************************************************************************)
(* seller.py: create_stocks and create_prices (Ozon)                       *)
(***************************************************************************)
\* Mutant of seller_stock: a quantity of "1" is taken at face value.
seller_stock_literal(quantity) ==
    IF quantity = GT10 THEN 100 ELSE ParseInt(quantity)

\* The count of one matched record (seller.py: count / stock).
seller_stock(quantity) ==
    IF quantity = GT10 THEN 100
    ELSE IF quantity = ONE THEN 0
    ELSE ParseInt(quantity)

\* The first loop of create_stocks: ids is the offer ID list, consumed in place.
RECURSIVE seller_match_loop(_, _, _)
seller_match_loop(remnants, ids, acc) ==
    IF remnants = <<>> THEN [stocks |-> acc, offer_ids |-> ids]
    ELSE LET watch == Head(remnants) IN
         IF InList(watch.code, ids)
         THEN seller_match_loop(
                  Tail(remnants),
                  ListRemove(ids, watch.code),
                  Append(acc, [offer_id |-> watch.code,
                               stock |-> seller_stock(watch.quantity)]))
         ELSE seller_match_loop(Tail(remnants), ids, acc)

\* Mutant of seller_create_stocks: records of unknown codes get an entry too.
seller_create_stocks_all(remnants, ids) ==
    LET matched == seller_match_loop(remnants, ids, <<>>)
        left == matched.offer_ids
        unknown == SelectSeq(remnants, LAMBDA watch : ~InList(watch.code, ids))
    IN  [stocks |-> matched.stocks \o
                    [i \in 1..Len(unknown) |->
                        [offer_id |-> unknown[i].code,
                         stock |-> seller_stock(unknown[i].quantity)]] \o
                    [i \in 1..Len(left) |-> [offer_id |-> left[i], stock |-> 0]],
         offer_ids |-> left]

\* create_stocks: the returned list, and the offer ID list as the call leaves it.
seller_create_stocks(remnants, ids) ==
    LET matched == seller_match_loop(remnants, ids, <<>>)
        left == matched.offer_ids
    IN  [stocks |-> matched.stocks \o
                    [i \in 1..Len(left) |-> [offer_id |-> left[i], stock |-> 0]],
         offer_ids |-> left]

seller_create_prices(remnants, ids) ==
    LET known == SelectSeq(remnants, LAMBDA watch : InList(watch.code, ids))
    IN  [i \in 1..Len(known) |->
            [auto_action_enabled |-> "UNKNOWN",
             currency_code |-> "RUB",
             offer_id |-> known[i].code,
             old_price |-> "0",
             price |-> price_conversion(known[i].price)]]

(***************************************************************************)
(* market.py: create_stocks and create_prices (Yandex)                     *)
(***************************************************************************)
\* datetime.utcnow().replace(microsecond=0).isoformat() + "Z": the clock is
\* read once per call, to the second.
UtcNow == clock

market_stock(quantity) ==
    IF quantity = GT10 THEN 100
    ELSE IF quantity = ONE THEN 0
    ELSE ParseInt(quantity)

market_sku(sku, warehouse_id, count) ==
    [sku |-> sku,
     warehouseId |-> warehouse_id,
     items |-> << [count |-> count, type |-> "FIT", updatedAt |-> UtcNow] >>]

RECURSIVE market_match_loop(_, _, _, _)
market_match_loop(remnants, ids, warehouse_id, acc) ==
    IF remnants = <<>> THEN [stocks |-> acc, offer_ids |-> ids]
    ELSE LET watch == Head(remnants) IN
         IF InList(watch.code, ids)
         THEN market_match_loop(
                  Tail(remnants),
                  ListRemove(ids, watch.code),
                  warehouse_id,
                  Append(acc, market_sku(watch.code, warehouse_id,
                                         market_stock(watch.quantity))))
         ELSE market_match_loop(Tail(remnants), ids, warehouse_id, acc)

\* Mutant of market_create_stocks: the call works on a copy of the offer IDs.
market_create_stocks_on_copy(remnants, ids, warehouse_id) ==
    LET matched == market_match_loop(remnants, ids, warehouse_id, <<>>)
        left == matched.offer_ids
    IN  [stocks |-> matched.stocks \o
                    [i \in 1..Len(left) |-> market_sku(left[i], warehouse_id, 0)],
         offer_ids |-> ids]

market_create_stocks(remnants, ids, warehouse_id) ==
    LET matched == market_match_loop(remnants, ids, warehouse_id, <<>>)
        left == matched.offer_ids
    IN  [stocks |-> matched.stocks \o
                    [i \in 1..Len(left) |-> market_sku(left[i], warehouse_id, 0)],
         offer_ids |-> left]

\* Mutant of market_create_prices: the membership test is dropped.
market_create_prices_all(remnants, ids) ==
    [i \in 1..Len(remnants) |->
        [id |-> remnants[i].code,
         price |-> [value |-> DigitsToInt(price_conversion(remnants[i].price)),
                    currencyId |-> "RUR"]]]

market_create_prices(remnants, ids) ==
    LET known == SelectSeq(remnants, LAMBDA watch : InList(watch.code, ids))
    IN  [i \in 1..Len(known) |->
            [id |-> known[i].code,
             price |-> [value |-> DigitsToInt(price_conversion(known[i].price)),
                        currencyId |-> "RUR"]]]

(***************************************************************************)
(* The marketplaces, as get_product_list sees them.  A catalog is served   *)
(* in pages of at most the requested limit.  Cursors are positions in the  *)
(* catalog: last_id "" and page token "" are position 0; None is a value   *)
(* of its own.                                                             *)
(***************************************************************************)
EmptyStr == 0
None == 0 - 1

NumPages(catalog, limit) == Cardinality(RangeStarts(Len(catalog), limit))

\* A marketplace that serves no catalog in this run.
NoServer == [catalog |-> <<>>, totals |-> <<0>>, last |-> "absent"]

\* A catalog whose reported total is its size on every page.
SteadyServer(catalog, limit) ==
    [catalog |-> catalog,
     totals |-> [k \in 1..(NumPages(catalog, limit) + 1) |-> Len(catalog)],
     last |-> "absent"]

\* Catalogs whose reported total is right on the first page and may be off by
\* one on the later ones (offers are added or archived while the pages are read).
DriftingServers(catalog, limit) ==
    { [catalog |-> catalog, totals |-> t, last |-> "absent"] :
        t \in { f \in [1..(NumPages(catalog, limit) + 1) ->
                        { n \in {Len(catalog) - 1, Len(catalog), Len(catalog) + 1} : n >= 0 }] :
                  f[1] = Len(catalog) } }

\* Yandex catalogs: the last page carries an empty token, or none.
TokenServers(catalog, limit) ==
    { [catalog |-> catalog,
       totals |-> [k \in 1..(NumPages(catalog, limit) + 1) |-> Len(catalog)],
       last |-> l] : l \in {"absent", "empty"} }

\* seller.get_product_list: response_object.get("result") for a request with last_id.
seller_get_product_list(srv, last_id) ==
    LET items == Slice(srv.catalog, last_id, OzonPageLimit)
        pageNo == IF last_id >= Len(srv.catalog)
                  THEN NumPages(srv.catalog, OzonPageLimit) + 1
                  ELSE (last_id \div OzonPageLimit) + 1
    IN  [items |-> [i \in 1..Len(items) |-> [offer_id |-> items[i]]],
         total |-> srv.totals[pageNo],
         last_id |-> last_id + Len(items)]

\* market.get_product_list: response_object.get("result") for a request with page token.
market_get_product_list(srv, token) ==
    LET entries == Slice(srv.catalog, token, MarketPageLimit)
        next == token + Len(entries)
    IN  [offerMappingEntries |->
            [i \in 1..Len(entries) |-> [offer |-> [shopSku |-> entries[i]]]],
         paging |-> IF next < Len(srv.catalog) THEN [nextPageToken |-> next]
                    ELSE IF srv.last = "empty" THEN [nextPageToken |-> EmptyStr]
                    ELSE <<>>]

\* dict.get(key)
DictGet(d, key) == IF key \in DOMAIN d THEN d[key] ELSE None

(***************************************************************************)
(* Entry points                                                            *)
(***************************************************************************)
SellerEntries == {"seller.main", "seller.upload_stocks", "seller.upload_prices",
                  "seller.get_offer_ids", "seller.create_stocks",
                  "seller.create_prices"}
MarketEntries == {"market.main", "market.upload_stocks", "market.upload_prices",
                  "market.get_offer_ids", "market.create_stocks",
                  "market.create_prices"}
MainEntries == {"seller.main", "market.main"}
IsOzon == entry \in SellerEntries

Errors == {"HTTPError", "ReadTimeout", "ConnectionError"}
Outcomes == {"ok"} \cup Errors

\* WAREHOUSE_FBS_ID / WAREHOUSE_DBS_ID
Warehouse(c) == IF c = "dbs" THEN "wh_dbs" ELSE "wh_fbs"

NoProd == [items |-> <<>>, total |-> 0, last_id |-> 0]

\* The inputs of the runs of main and of the upload helpers.
RunRecords == { Record("a", GT10, PriceA),
                Record("b", ONE, PriceB),
                Record("c", <<"1", "2">>, PriceC) }
RunRemnants == SeqsUpTo(RunRecords, MaxRecords)

StockRecords == { Record(c, q, PriceC) : c \in Ids, q \in Quantities }
PriceRecords == { Record(c, ONE, p) : c \in Ids, p \in Prices }
PriceAlphabet == {"5", "0", "'", ".", " ", "r"}

Servers(oz, fbs, dbs) == [ozon |-> oz, fbs |-> fbs, dbs |-> dbs]

\* The working directory holds no ostatki.xls; one main is run, on its own.
Absent == [exists |-> FALSE, rows |-> <<>>]
Written(rows) == [exists |-> TRUE, rows |-> rows]
NoProcess == <<>>
InitWorld ==
    /\ file = Absent
    /\ suspended = NoProcess
    /\ clock = 0

InitLocals ==
    /\ watch_remnants = <<>>
    /\ offer_ids = <<>>
    /\ page = EmptyStr
    /\ some_prod = NoProd
    /\ product_list = <<>>
    /\ stocks = <<>>
    /\ prices = <<>>
    /\ batches = <<>>
    /\ calls = <<>>
    /\ exc = "none"
    /\ printed = <<>>
    /\ coroutines = 0
    /\ ret = <<>>

\* seller.main(): nothing is passed in; the feed and the catalog are the world's.
InitSellerMain ==
    /\ entry = "seller.main" /\ pc = "get_product_list" /\ campaign = "ozon"
    /\ feed \in RunRemnants
    /\ \E cat \in RunCatalogs :
          server = Servers(SteadyServer(cat, OzonPageLimit), NoServer, NoServer)
    /\ arg = <<>>
    /\ InitLocals
    /\ InitWorld

\* market.main()
InitMarketMain ==
    /\ entry = "market.main" /\ pc = "download_stock" /\ campaign = "fbs"
    /\ feed \in RunRemnants
    /\ \E fbs \in RunCatalogs, dbs \in RunCatalogs :
          server = Servers(NoServer, SteadyServer(fbs, MarketPageLimit),
                           SteadyServer(dbs, MarketPageLimit))
    /\ arg = <<>>
    /\ InitLocals
    /\ InitWorld

\* upload_stocks / upload_prices awaited on their own, with a remnants list.
InitUpload ==
    /\ entry \in {"seller.upload_stocks", "seller.upload_prices",
                  "market.upload_stocks", "market.upload_prices"}
    /\ pc = "get_product_list"
    /\ campaign = IF IsOzon THEN "ozon" ELSE "fbs"
    /\ feed \in RunRemnants
    /\ \E cat \in RunCatalogs :
          server = IF IsOzon
                   THEN Servers(SteadyServer(cat, OzonPageLimit), NoServer, NoServer)
                   ELSE Servers(NoServer, SteadyServer(cat, MarketPageLimit), NoServer)
    /\ arg = [watch_remnants |-> feed]
    /\ watch_remnants = feed
    /\ offer_ids = <<>> /\ page = EmptyStr /\ some_prod = NoProd
    /\ product_list = <<>> /\ stocks = <<>> /\ prices = <<>> /\ batches = <<>>
    /\ calls = <<>> /\ exc = "none" /\ printed = <<>> /\ coroutines = 0
    /\ ret = <<>>
    /\ InitWorld

\* get_offer_ids called on its own, against any catalog.
InitGetOfferIds ==
    /\ entry \in {"seller.get_offer_ids", "market.get_offer_ids"}
    /\ pc = "get_product_list"
    /\ campaign = IF IsOzon THEN "ozon" ELSE "fbs"
    /\ feed = <<>>
    /\ \E cat \in Catalogs :
          IF IsOzon
          THEN \E srv \in DriftingServers(cat, OzonPageLimit) :
                  server = Servers(srv, NoServer, NoServer)
          ELSE \E srv \in TokenServers(cat, MarketPageLimit) :
                  server = Servers(NoServer, srv, NoServer)
    /\ arg = <<>>
    /\ InitLocals
    /\ InitWorld

\* create_stocks / create_prices called on their own.
InitCreate ==
    /\ \/ /\ entry \in {"seller.create_stocks", "market.create_stocks"}
          /\ pc = "create_stocks"
          /\ watch_remnants \in SeqsUpTo(StockRecords, MaxRecords)
       \/ /\ entry \in {"seller.create_prices", "market.create_prices"}
          /\ pc = "create_prices"
          /\ watch_remnants \in SeqsUpTo(PriceRecords, MaxRecords)
    /\ campaign = IF IsOzon THEN "ozon" ELSE "fbs"
    /\ feed = <<>>
    /\ server = Servers(NoServer, NoServer, NoServer)
    /\ offer_ids \in Catalogs
    /\ arg = [watch_remnants |-> watch_remnants, offer_ids |-> offer_ids]
    /\ page = EmptyStr /\ some_prod = NoProd
    /\ product_list = <<>> /\ stocks = <<>> /\ prices = <<>> /\ batches = <<>>
    /\ calls = <<>> /\ exc = "none" /\ printed = <<>> /\ coroutines = 0
    /\ ret = <<>>
    /\ InitWorld

\* price_conversion and divide called on their own.
InitPure ==
    /\ \/ /\ entry = "price_conversion"
          /\ \E price \in SeqsUpTo(PriceAlphabet, MaxPriceLen) : arg = [price |-> price]
       \/ /\ entry = "divide"
          /\ \E lst \in SeqsUpTo({1, 2}, MaxList), n \in 1..MaxBatch :
                arg = [lst |-> lst, n |-> n]
    /\ pc = "call"
    /\ campaign = "ozon"
    /\ feed = <<>>
    /\ server = Servers(NoServer, NoServer, NoServer)
    /\ InitLocals
    /\ InitWorld

Init ==
    \/ InitSellerMain
    \/ InitMarketMain
    \/ InitUpload
    \/ InitGetOfferIds
    \/ InitCreate
    \/ InitPure

(***************************************************************************)
(* Exceptions.  seller.main wraps everything it does in try/except;        *)
(* market.main calls download_stock() before its try.  The helpers have no *)
(* handler: an exception leaves them.                                      *)
(***************************************************************************)
\* Mutant of InTry: the try block of market.main is missing.
InTrySellerOnly == entry = "seller.main"

\* The statements of download_stock.
DownloadStockPcs == {"download_stock", "extractall", "read_excel", "remove"}

InTry ==
    \/ entry = "seller.main"
    \/ entry = "market.main" /\ pc \notin DownloadStockPcs

\* Mutant of Raise: the failure is noted and the statement is tried again.
RaiseAndRetry(e) ==
    /\ exc' = e
    /\ pc' = pc

Raise(e) ==
    /\ exc' = e
    /\ pc' = IF InTry THEN "except" ELSE "raised"

\* calls is the history of the runs of main and of the upload helpers.
Logged == entry \notin {"seller.get_offer_ids", "market.get_offer_ids"}

Log(api, payload, outcome) ==
    IF Logged
    THEN Append(calls, [api |-> api, campaign |-> campaign,
                        payload |-> payload, outcome |-> outcome])
    ELSE calls

StockBatch == IF IsOzon THEN OzonStockBatch ELSE MarketStockBatch

PriceBatch ==
    IF entry = "seller.main" THEN OzonPriceBatch
    ELSE IF IsOzon THEN OzonUploadPriceBatch
    ELSE MarketPriceBatch

\* Where control goes when get_offer_ids returns to its caller.
AfterGetOfferIds ==
    IF entry = "seller.main" THEN "download_stock"
    ELSE IF entry \in {"seller.upload_prices", "market.upload_prices"} THEN "create_prices"
    ELSE IF entry \in {"seller.get_offer_ids", "market.get_offer_ids"} THEN "done"
    ELSE "create_stocks"

\* Where control goes when the loop over the stock batches ends.
AfterStocks ==
    IF entry = "seller.main" THEN "create_prices"
    ELSE IF entry = "market.main" THEN "upload_prices"
    ELSE "return"

(***************************************************************************)
(* get_offer_ids                                                           *)
(***************************************************************************)
\* some_prod = get_product_list(...): requests.post/get, raise_for_status.
GetProductList ==
    /\ pc = "get_product_list"
    /\ \E outcome \in Outcomes :
          /\ calls' = Log("get_product_list", page, outcome)
          /\ IF outcome = "ok"
             THEN /\ some_prod' = IF IsOzon
                                  THEN seller_get_product_list(server[campaign], page)
                                  ELSE market_get_product_list(server[campaign], page)
                  /\ pc' = "extend"
                  /\ exc' = exc
             ELSE /\ Raise(outcome)
                  /\ some_prod' = some_prod
    /\ UNCHANGED <<clock, file, suspended, entry, campaign, feed, server, watch_remnants, offer_ids, page,
                   product_list, stocks, prices, batches, printed, coroutines,
                   arg, ret>>

\* The rest of the loop body: extend, take the cursor, test for the end.
Extend ==
    /\ pc = "extend"
    /\ IF IsOzon
       THEN /\ product_list' = product_list \o some_prod.items
            /\ page' = some_prod.last_id
            /\ pc' = IF some_prod.total = Len(product_list')
                     THEN "collect" ELSE "get_product_list"
       ELSE /\ product_list' = product_list \o some_prod.offerMappingEntries
            /\ page' = DictGet(some_prod.paging, "nextPageToken")
            /\ pc' = IF page' \in {None, EmptyStr}
                     THEN "collect" ELSE "get_product_list"
    /\ UNCHANGED <<clock, file, suspended, entry, campaign, feed, server, watch_remnants, offer_ids,
                   some_prod, stocks, prices, batches, calls, exc, printed,
                   coroutines, arg, ret>>

\* offer_ids = [...]; return offer_ids
Collect ==
    /\ pc = "collect"
    /\ offer_ids' = IF IsOzon
                    THEN [i \in 1..Len(product_list) |-> product_list[i].offer_id]
                    ELSE [i \in 1..Len(product_list) |-> product_list[i].offer.shopSku]
    /\ pc' = AfterGetOfferIds
    /\ ret' = IF AfterGetOfferIds = "done" THEN offer_ids' ELSE ret
    /\ UNCHANGED <<clock, file, suspended, entry, campaign, feed, server, watch_remnants, page, some_prod,
                   product_list, stocks, prices, batches, calls, exc, printed,
                   coroutines, arg>>

(***************************************************************************)
(* download_stock                                                          *)
(***************************************************************************)
\* response = session.get(casio_url); response.raise_for_status()
DownloadStock ==
    /\ pc = "download_stock"
    /\ \E outcome \in Outcomes :
          IF outcome = "ok"
          THEN /\ pc' = "extractall"
               /\ exc' = exc
          ELSE Raise(outcome)
    /\ UNCHANGED <<clock, file, suspended, entry, campaign, feed, server, watch_remnants,
                   offer_ids, page, some_prod, product_list, stocks, prices,
                   batches, calls, printed, coroutines, arg, ret>>

\* archive.extractall("."): writes ./ostatki.xls, over one that is there.
Extract ==
    /\ pc = "extractall"
    /\ file' = Written(feed)
    /\ pc' = "read_excel"
    /\ UNCHANGED <<clock, suspended, entry, campaign, feed, server, watch_remnants,
                   offer_ids, page, some_prod, product_list, stocks, prices,
                   batches, calls, exc, printed, coroutines, arg, ret>>

\* watch_remnants = pd.read_excel(io="ostatki.xls", ...).to_dict(...)
ReadExcel ==
    /\ pc = "read_excel"
    /\ IF file = Absent
       THEN /\ Raise("FileNotFoundError")
            /\ watch_remnants' = watch_remnants
       ELSE /\ watch_remnants' = file.rows
            /\ pc' = "remove"
            /\ exc' = exc
    /\ UNCHANGED <<clock, file, suspended, entry, campaign, feed, server, offer_ids, page,
                   some_prod, product_list, stocks, prices, batches, calls,
                   printed, coroutines, arg, ret>>

\* os.remove("./ostatki.xls"); return watch_remnants.  When remove raises,
\* the caller's watch_remnants is never bound.
Remove ==
    /\ pc = "remove"
    /\ IF file = Absent
       THEN /\ Raise("FileNotFoundError")
            /\ watch_remnants' = <<>>
            /\ file' = file
       ELSE /\ file' = Absent
            /\ watch_remnants' = watch_remnants
            /\ pc' = IF entry = "seller.main" THEN "create_stocks"
                     ELSE "get_product_list"
            /\ exc' = exc
    /\ UNCHANGED <<clock, suspended, entry, campaign, feed, server, offer_ids, page,
                   some_prod, product_list, stocks, prices, batches, calls,
                   printed, coroutines, arg, ret>>

(***************************************************************************)
(* Stocks: create_stocks, list(divide(stocks, n)), update_stocks per chunk *)
(***************************************************************************)
CreateStocks ==
    /\ pc = "create_stocks"
    /\ LET r == IF IsOzon
                THEN seller_create_stocks(watch_remnants, offer_ids)
                ELSE market_create_stocks(watch_remnants, offer_ids, Warehouse(campaign))
           alone == entry \in {"seller.create_stocks", "market.create_stocks"}
           chunks == divide(r.stocks, StockBatch)
       IN  /\ stocks' = r.stocks
           /\ offer_ids' = r.offer_ids
           /\ batches' = IF alone THEN batches ELSE chunks
           /\ ret' = IF alone THEN r.stocks ELSE ret
           /\ pc' = IF alone THEN "done"
                    ELSE IF chunks = <<>> THEN AfterStocks
                    ELSE "update_stocks"
    /\ UNCHANGED <<clock, file, suspended, entry, campaign, feed, server, watch_remnants, page, some_prod,
                   product_list, prices, calls, exc, printed, coroutines, arg>>

\* update_stocks(some_stock, ...): one request; raise_for_status.
UpdateStocks ==
    /\ pc = "update_stocks"
    /\ \E outcome \in Outcomes :
          /\ calls' = Log("update_stocks", Head(batches), outcome)
          /\ IF outcome = "ok"
             THEN /\ batches' = Tail(batches)
                  /\ pc' = IF Tail(batches) = <<>> THEN AfterStocks ELSE "update_stocks"
                  /\ exc' = exc
             ELSE /\ Raise(outcome)
                  /\ batches' = batches
    /\ UNCHANGED <<clock, file, suspended, entry, campaign, feed, server, watch_remnants, offer_ids, page,
                   some_prod, product_list, stocks, prices, printed, coroutines,
                   arg, ret>>

(***************************************************************************)
(* market.main: upload_prices(...) is a coroutine function and the call is *)
(* not awaited: it builds a coroutine object and runs none of the body.    *)
(***************************************************************************)
UploadPricesCall ==
    /\ pc = "upload_prices"
    /\ coroutines' = coroutines + 1
    /\ IF campaign = "fbs"
       THEN /\ campaign' = "dbs"
            /\ pc' = "get_product_list"
            /\ page' = EmptyStr
            /\ product_list' = <<>>
       ELSE /\ campaign' = campaign
            /\ pc' = "return"
            /\ page' = page
            /\ product_list' = product_list
    /\ UNCHANGED <<clock, file, suspended, entry, feed, server, watch_remnants, offer_ids, some_prod,
                   stocks, prices, batches, calls, exc, printed, arg, ret>>

(***************************************************************************)
(* Prices: create_prices, list(divide(prices, n)), update_price per chunk  *)
(***************************************************************************)
CreatePrices ==
    /\ pc = "create_prices"
    /\ LET p == IF IsOzon
                THEN seller_create_prices(watch_remnants, offer_ids)
                ELSE market_create_prices(watch_remnants, offer_ids)
           alone == entry \in {"seller.create_prices", "market.create_prices"}
           chunks == divide(p, PriceBatch)
       IN  /\ prices' = p
           /\ batches' = IF alone THEN batches ELSE chunks
           /\ ret' = IF alone THEN p ELSE ret
           /\ pc' = IF alone THEN "done"
                    ELSE IF chunks = <<>> THEN "return"
                    ELSE "update_price"
    /\ UNCHANGED <<clock, file, suspended, entry, campaign, feed, server, watch_remnants, offer_ids, page,
                   some_prod, product_list, stocks, calls, exc, printed,
                   coroutines, arg>>

UpdatePrice ==
    /\ pc = "update_price"
    /\ \E outcome \in Outcomes :
          /\ calls' = Log("update_price", Head(batches), outcome)
          /\ IF outcome = "ok"
             THEN /\ batches' = Tail(batches)
                  /\ pc' = IF Tail(batches) = <<>> THEN "return" ELSE "update_price"
                  /\ exc' = exc
             ELSE /\ Raise(outcome)
                  /\ batches' = batches
    /\ UNCHANGED <<clock, file, suspended, entry, campaign, feed, server, watch_remnants, offer_ids, page,
                   some_prod, product_list, stocks, prices, printed, coroutines,
                   arg, ret>>

(***************************************************************************)
(* Leaving the entry function                                              *)
(***************************************************************************)
\* upload_stocks: not_empty = list(filter(lambda stock: count != 0, stocks))
NotEmpty(lst) ==
    IF IsOzon THEN SelectSeq(lst, LAMBDA stock : stock.stock # 0)
    ELSE SelectSeq(lst, LAMBDA stock : stock.items[1].count # 0)

Return ==
    /\ pc = "return"
    /\ ret' = IF entry \in {"seller.upload_stocks", "market.upload_stocks"}
              THEN <<NotEmpty(stocks), stocks>>
              ELSE IF entry \in {"seller.upload_prices", "market.upload_prices"}
              THEN prices
              ELSE ret
    /\ pc' = "done"
    /\ UNCHANGED <<clock, file, suspended, entry, campaign, feed, server, watch_remnants, offer_ids, page,
                   some_prod, product_list, stocks, prices, batches, calls, exc,
                   printed, coroutines, arg>>

\* The except clauses of main, tried in order; each prints and main returns.
Message(e) ==
    IF e = "ReadTimeout" THEN "timeout"
    ELSE IF e = "ConnectionError" THEN "connection error"
    ELSE "ERROR_2"

Except ==
    /\ pc = "except"
    /\ printed' = Append(printed, Message(exc))
    /\ pc' = "done"
    /\ UNCHANGED <<clock, file, suspended, entry, campaign, feed, server, watch_remnants, offer_ids, page,
                   some_prod, product_list, stocks, prices, batches, calls, exc,
                   coroutines, arg, ret>>

\* create_stocks called once more on the same records, with a fresh copy of
\* the offer ID list it was given the first time; ret keeps the first output.
CreateStocksAgain ==
    /\ pc = "done"
    /\ entry \in {"seller.create_stocks", "market.create_stocks"}
    /\ LET r == IF IsOzon
                THEN seller_create_stocks(watch_remnants, arg.offer_ids)
                ELSE market_create_stocks(watch_remnants, arg.offer_ids,
                                          Warehouse(campaign))
       IN  /\ stocks' = r.stocks
           /\ offer_ids' = r.offer_ids
    /\ pc' = "done_again"
    /\ UNCHANGED <<clock, file, suspended, entry, campaign, feed, server,
                   watch_remnants, page, some_prod, product_list, prices,
                   batches, calls, exc, printed, coroutines, arg, ret>>

\* A second passes while a Yandex function that stamps its stock entries runs.
Tick ==
    /\ clock < MaxClock
    /\ \/ entry \in {"market.main", "market.upload_stocks"}
          /\ pc \notin {"done", "raised"}
       \/ entry = "market.create_stocks" /\ pc \in {"create_stocks", "done"}
    /\ clock' = clock + 1
    /\ UNCHANGED <<file, suspended, entry, pc, campaign, feed, server,
                   watch_remnants, offer_ids, page, some_prod, product_list,
                   stocks, prices, batches, calls, exc, printed, coroutines,
                   arg, ret>>

\* price_conversion(price) / list(divide(lst, n)) called on their own.
CallPure ==
    /\ pc = "call"
    /\ ret' = IF entry = "price_conversion" THEN price_conversion(arg.price)
              ELSE divide(arg.lst, arg.n)
    /\ pc' = "done"
    /\ UNCHANGED <<clock, file, suspended, entry, campaign, feed, server, watch_remnants, offer_ids, page,
                   some_prod, product_list, stocks, prices, batches, calls, exc,
                   printed, coroutines, arg>>

Next ==
    \/ GetProductList
    \/ Extend
    \/ Collect
    \/ DownloadStock
    \/ Extract
    \/ ReadExcel
    \/ Remove
    \/ CreateStocks
    \/ UpdateStocks
    \/ UploadPricesCall
    \/ CreatePrices
    \/ UpdatePrice
    \/ Return
    \/ Except
    \/ CreateStocksAgain
    \/ Tick
    \/ CallPure

Spec == Init /\ [][Next]_vars

\* get_offer_ids on its own: the three steps of its loop and its return.
FetchInit == InitGetOfferIds

FetchNext ==
    \/ GetProductList
    \/ Extend
    \/ Collect

\* The interpreter runs the next statement of a function that has not ended.
FetchSpec == FetchInit /\ [][FetchNext]_vars /\ WF_vars(FetchNext)

Terminated == pc \in {"done", "raised"}

(***************************************************************************)
(* seller.main and market.main run together in one working directory, on   *)
(* the same feed.  One of them is running and the other is suspended       *)
(* between two of its statements; a switch swaps them.  The local          *)
(* variables belong to each run; the feed, the marketplaces and the files  *)
(* of the working directory are the world's.                               *)
(***************************************************************************)
Locals ==
    [entry |-> entry, pc |-> pc, campaign |-> campaign,
     watch_remnants |-> watch_remnants, offer_ids |-> offer_ids, page |-> page,
     some_prod |-> some_prod, product_list |-> product_list, stocks |-> stocks,
     prices |-> prices, batches |-> batches, calls |-> calls, exc |-> exc,
     printed |-> printed, coroutines |-> coroutines, arg |-> arg, ret |-> ret]

MarketMainStart ==
    [entry |-> "market.main", pc |-> "download_stock", campaign |-> "fbs",
     watch_remnants |-> <<>>, offer_ids |-> <<>>, page |-> EmptyStr,
     some_prod |-> NoProd, product_list |-> <<>>, stocks |-> <<>>,
     prices |-> <<>>, batches |-> <<>>, calls |-> <<>>, exc |-> "none",
     printed |-> <<>>, coroutines |-> 0, arg |-> <<>>, ret |-> <<>>]

PairFeed == <<Record("a", GT10, PriceA)>>

PairInit ==
    /\ entry = "seller.main" /\ pc = "get_product_list" /\ campaign = "ozon"
    /\ feed = PairFeed
    /\ server = Servers(SteadyServer(<<"a">>, OzonPageLimit),
                        SteadyServer(<<"a">>, MarketPageLimit),
                        SteadyServer(<<>>, MarketPageLimit))
    /\ arg = <<>>
    /\ InitLocals
    /\ file = Absent
    /\ suspended = <<MarketMainStart>>
    /\ clock = 0

\* The running main is suspended and the other one goes on.
Switch ==
    /\ suspended # NoProcess
    /\ suspended' = <<Locals>>
    /\ entry' = suspended[1].entry
    /\ pc' = suspended[1].pc
    /\ campaign' = suspended[1].campaign
    /\ watch_remnants' = suspended[1].watch_remnants
    /\ offer_ids' = suspended[1].offer_ids
    /\ page' = suspended[1].page
    /\ some_prod' = suspended[1].some_prod
    /\ product_list' = suspended[1].product_list
    /\ stocks' = suspended[1].stocks
    /\ prices' = suspended[1].prices
    /\ batches' = suspended[1].batches
    /\ calls' = suspended[1].calls
    /\ exc' = suspended[1].exc
    /\ printed' = suspended[1].printed
    /\ coroutines' = suspended[1].coroutines
    /\ arg' = suspended[1].arg
    /\ ret' = suspended[1].ret
    /\ UNCHANGED <<feed, server, file, clock>>

\* The statements either main reaches (update_price is reached by neither).
PairNext ==
    \/ GetProductList
    \/ Extend
    \/ Collect
    \/ DownloadStock
    \/ Extract
    \/ ReadExcel
    \/ Remove
    \/ CreateStocks
    \/ UpdateStocks
    \/ UploadPricesCall
    \/ CreatePrices
    \/ Return
    \/ Except
    \/ Tick
    \/ Switch

PairSpec == PairInit /\ [][PairNext]_vars

(***************************************************************************)
(* Vocabulary of the claims                                                *)
(***************************************************************************)
ToSet(s) == { s[i] : i \in 1..Len(s) }
Codes(remnants) == { remnants[i].code : i \in 1..Len(remnants) }

\* The position of i among the members of the index set S, in increasing order.
Rank(S, i) == Cardinality({ k \in S : k <= i })

EntryId(e) == IF IsOzon THEN e.offer_id ELSE e.sku
EntryCount(e) == IF IsOzon THEN e.stock ELSE e.items[1].count
EntriesOf(lst, id) == { k \in 1..Len(lst) : EntryId(lst[k]) = id }

PriceId(e) == IF IsOzon THEN e.offer_id ELSE e.id
PriceAmount(e) == IF IsOzon THEN e.price ELSE e.price.value

\* What the quantities and prices of the model are worth, written out by hand.
IntValue(q) ==
    CASE q = <<"1", "2">> -> 12
      [] q = <<"-", "2">> -> 0 - 2

ExpectedCount(q) ==
    IF q = GT10 THEN 100 ELSE IF q = ONE THEN 0 ELSE IntValue(q)

ExpectedAmount(p) ==
    CASE p = PriceA -> IF IsOzon THEN <<"5", "9", "9", "0">> ELSE 5990
      [] p = PriceB -> IF IsOzon THEN <<"7", "5", "0", "0">> ELSE 7500
      [] p = PriceC -> IF IsOzon THEN <<"9", "9", "0">> ELSE 990

CreateStocksReturned ==
    entry \in {"seller.create_stocks", "market.create_stocks"} /\ pc = "done"

CreatePricesReturned ==
    entry \in {"seller.create_prices", "market.create_prices"} /\ pc = "done"

\* Record i is matched: its code is in the offer ID list when the loop reaches it,
\* that is, it is in the catalog and no earlier record has consumed it.
MatchedRecords ==
    { i \in 1..Len(arg.watch_remnants) :
        /\ InList(arg.watch_remnants[i].code, arg.offer_ids)
        /\ \A j \in 1..(i - 1) :
              arg.watch_remnants[j].code # arg.watch_remnants[i].code }

\* Positions of the catalog whose offer ID no record mentions.
LeftoverOffers ==
    { j \in 1..Len(arg.offer_ids) : arg.offer_ids[j] \notin Codes(arg.watch_remnants) }

C2_CountRule ==
    CreateStocksReturned =>
        /\ \A i \in MatchedRecords :
              \E k \in 1..Len(ret) :
                  /\ EntryId(ret[k]) = arg.watch_remnants[i].code
                  /\ EntryCount(ret[k]) = ExpectedCount(arg.watch_remnants[i].quantity)
        /\ \A j \in LeftoverOffers :
              \E k \in 1..Len(ret) :
                  /\ EntryId(ret[k]) = arg.offer_ids[j]
                  /\ EntryCount(ret[k]) = 0

C2_Witness ==
    /\ CreateStocksReturned
    /\ \E i \in MatchedRecords : arg.watch_remnants[i].quantity = ONE
    /\ \E i \in MatchedRecords : arg.watch_remnants[i].quantity \notin {GT10, ONE}
    /\ LeftoverOffers # {}

(***************************************************************************)
(* C3: the output holds the entries of the matched records in record       *)
(* order, then the entries of the leftover offer IDs in catalog order, and *)
(* no offer ID occurs twice, also when a code occurs twice in the remnants.*)
(***************************************************************************)
C3_OutputOrder ==
    CreateStocksReturned =>
        LET m == Cardinality(MatchedRecords)
        IN  /\ Len(ret) = m + Cardinality(LeftoverOffers)
            /\ \A i \in MatchedRecords :
                  EntryId(ret[Rank(MatchedRecords, i)]) = arg.watch_remnants[i].code
            /\ \A j \in LeftoverOffers :
                  EntryId(ret[m + Rank(LeftoverOffers, j)]) = arg.offer_ids[j]
            /\ \A k1, k2 \in 1..Len(ret) :
                  EntryId(ret[k1]) = EntryId(ret[k2]) => k1 = k2

C3_Witness ==
    /\ CreateStocksReturned
    /\ \E i, j \in 1..Len(arg.watch_remnants) :
          /\ i < j
          /\ arg.watch_remnants[i].code = arg.watch_remnants[j].code
          /\ InList(arg.watch_remnants[i].code, arg.offer_ids)
    /\ Cardinality(LeftoverOffers) >= 2

(***************************************************************************)
(* C4: create_prices emits one entry per record whose code is a known      *)
(* offer ID, in record order, with the amount price_conversion gives for   *)
(* the record's price; nothing for an offer without a record, nothing for  *)
(* a record of an unknown code; the offer ID list is left unchanged.       *)
(***************************************************************************)
KnownRecords ==
    { i \in 1..Len(arg.watch_remnants) :
        arg.watch_remnants[i].code \in ToSet(arg.offer_ids) }

PriceConversionReturned == entry = "price_conversion" /\ pc = "done"

\* Positions of the digits that stand before the first "."
IntegerPartDigits(s) ==
    { i \in 1..Len(s) : s[i] \in Digit /\ \A j \in 1..i : s[j] # "." }

C5_DigitsOfIntegerPart ==
    PriceConversionReturned =>
        LET kept == IntegerPartDigits(arg.price)
        IN  /\ Len(ret) = Cardinality(kept)
            /\ \A i \in kept : ret[Rank(kept, i)] = arg.price[i]
            /\ \A k \in 1..Len(ret) : ret[k] \in Digit
            /\ kept = {} => ret = <<>>

C5_Witness ==
    /\ PriceConversionReturned
    /\ \E i, j, k \in 1..Len(arg.price) :
          /\ i < j /\ j < k
          /\ arg.price[i] \notin Digit \cup {"."}
          /\ arg.price[j] = "."
          /\ arg.price[k] \in Digit
          /\ \A h \in 1..(j - 1) : arg.price[h] # "."
    /\ ret # <<>>

(***************************************************************************)
(* Vocabulary of the claims about runs                                     *)
(***************************************************************************)
UpdateApis == {"update_stocks", "update_price"}

CallsOf(api, c) == SelectSeq(calls, LAMBDA x : x.api = api /\ x.campaign = c)
Payloads(sq) == [i \in 1..Len(sq) |-> sq[i].payload]
FailedCalls == { i \in 1..Len(calls) : calls[i].outcome # "ok" }

RECURSIVE Concat(_)
Concat(chunks) ==
    IF chunks = <<>> THEN <<>> ELSE Head(chunks) \o Concat(Tail(chunks))

\* chunks cut lst into consecutive pieces of n elements, the last one of 1..n.
IsChunking(chunks, lst, n) ==
    /\ Concat(chunks) = lst
    /\ \A k \in 1..Len(chunks) : Len(chunks[k]) >= 1 /\ Len(chunks[k]) <= n
    /\ \A k \in 1..(Len(chunks) - 1) : Len(chunks[k]) = n
    /\ lst = <<>> => chunks = <<>>

\* The runs that hold upload loops: main and the upload helpers.
InUploadRun ==
    entry \in MainEntries \cup {"seller.upload_stocks", "seller.upload_prices",
                                "market.upload_stocks", "market.upload_prices"}

\* Positions at which the loop over the stock batches of the campaign in hand is over.
StockLoopOver == pc \in {"create_prices", "update_price", "upload_prices", "return", "done"}
PriceLoopOver == pc \in {"return", "done"}

(***************************************************************************)
(* C6: for every list and every positive n, divide yields consecutive      *)
(* chunks whose concatenation is the list, each non-empty and of at most n *)
(* elements, all but the last of exactly n, none for the empty list; the   *)
(* upload loops call the update function once per chunk, in chunk order.   *)
(***************************************************************************)
C6_ChunksAndUploads ==
    /\ entry = "divide" /\ pc = "done" => IsChunking(ret, arg.lst, arg.n)
    /\ InUploadRun /\ exc = "none" /\ pc = "update_stocks" =>
          IsChunking(Payloads(CallsOf("update_stocks", campaign)) \o batches,
                     stocks, StockBatch)
    /\ InUploadRun /\ exc = "none" /\ StockLoopOver =>
          IsChunking(Payloads(CallsOf("update_stocks", campaign)), stocks, StockBatch)
    /\ InUploadRun /\ exc = "none" /\ pc = "update_price" =>
          IsChunking(Payloads(CallsOf("update_price", campaign)) \o batches,
                     prices, PriceBatch)
    /\ InUploadRun /\ exc = "none" /\ PriceLoopOver =>
          IsChunking(Payloads(CallsOf("update_price", campaign)), prices, PriceBatch)

C6_Witness ==
    /\ entry = "seller.main" /\ pc = "done" /\ exc = "none"
    /\ LET sent == CallsOf("update_stocks", "ozon")
       IN  /\ Len(sent) >= 2
           /\ Len(sent[Len(sent)].payload) < OzonStockBatch

(***************************************************************************)
(* C7: when the update call for chunk k fails, chunks 1..k-1 have each     *)
(* been submitted once and stay applied, chunk k is not submitted again    *)
(* and no later chunk is ever submitted.                                   *)
(***************************************************************************)
C7_FailedBatchEndsUpload ==
    \A i \in FailedCalls :
        calls[i].api \in UpdateApis =>
            LET sent == CallsOf(calls[i].api, calls[i].campaign)
                k == Len(sent)
                lst == IF calls[i].api = "update_stocks" THEN stocks ELSE prices
                n == IF calls[i].api = "update_stocks" THEN StockBatch ELSE PriceBatch
            IN  /\ i = Len(calls)
                /\ \A j \in 1..k :
                      sent[j].payload = SubSeq(lst, (j - 1) * n + 1, Min(j * n, Len(lst)))
                /\ \A j \in 1..(k - 1) : sent[j].outcome = "ok"
                /\ sent[k].outcome = exc
                /\ (k - 1) * n < Len(lst)
                /\ pc \in {"except", "raised", "done"}

C7_Witness ==
    /\ entry = "market.main" /\ pc = "done"
    /\ FailedCalls # {}
    /\ calls[Len(calls)].api = "update_stocks"
    /\ calls[Len(calls)].campaign = "fbs"
    /\ Len(CallsOf("update_stocks", "fbs")) >= 2

(***************************************************************************)
(* C8 (as stated, its termination part): for every finite catalog served   *)
(* page by page get_offer_ids eventually ends, also when the reported      *)
(* total changes between pages or the accumulated count passes the total.  *)
(***************************************************************************)
C8_FetchTerminates == <>Terminated

\* The same for the catalogs whose total is steady, and for the Yandex
\* variant: the fetch ends, and what it returns is the catalog in page order.
SteadyCatalog ==
    \/ entry = "market.get_offer_ids"
    \/ server["ozon"] = SteadyServer(server["ozon"].catalog, OzonPageLimit)

SteadyFetchReturnsCatalog ==
    SteadyCatalog =>
        <>(pc = "raised" \/ (pc = "done" /\ ret = server[campaign].catalog))

(***************************************************************************)
(* C9 (as stated): a run of market.main in which no call fails submits,    *)
(* for FBS and then for DBS, every chunk of the campaign's price list,     *)
(* after the campaign's last stock batch.                                  *)
(***************************************************************************)
PriceSubmitted(c, code) ==
    \E i \in 1..Len(calls) :
        /\ calls[i].api = "update_price" /\ calls[i].campaign = c
        /\ \E k \in 1..Len(calls[i].payload) : calls[i].payload[k].id = code
        /\ \A j \in 1..Len(calls) :
              calls[j].api = "update_stocks" /\ calls[j].campaign = c => j < i

C9_PricesFollowStocks ==
    entry = "market.main" /\ pc = "done" /\ exc = "none" =>
        \A c \in {"fbs", "dbs"} :
            \A i \in 1..Len(feed) :
                feed[i].code \in ToSet(server[c].catalog) =>
                    PriceSubmitted(c, feed[i].code)

(***************************************************************************)
(* C10: in a run of main the first failing marketplace API call ends the   *)
(* run: nothing is built from the pages fetched so far, no API call        *)
(* follows (no retry, no DBS call after an FBS failure), the error is      *)
(* caught by main's handler and printed, and main returns normally.        *)
(***************************************************************************)
ExpectedMessage(e) ==
    CASE e = "ReadTimeout" -> "timeout"
      [] e = "ConnectionError" -> "connection error"
      [] e = "HTTPError" -> "ERROR_2"

C10_FirstFailureEndsRun ==
    entry \in MainEntries =>
        \A i \in FailedCalls :
            /\ i = Len(calls)
            /\ exc = calls[i].outcome
            /\ pc \in {"except", "done"}
            /\ pc = "except" => printed = <<>>
            /\ pc = "done" => printed = <<ExpectedMessage(exc)>> /\ ret = <<>>
            /\ calls[i].api = "get_product_list" =>
                  /\ CallsOf("update_stocks", calls[i].campaign) = <<>>
                  /\ CallsOf("update_price", calls[i].campaign) = <<>>
                  /\ calls[i].campaign # "dbs" => offer_ids = <<>> /\ stocks = <<>>

C10_Witness ==
    /\ entry = "market.main" /\ pc = "done"
    /\ exc = "ReadTimeout"
    /\ printed = <<"timeout">>
    /\ calls[Len(calls)].outcome = "ReadTimeout"
    /\ calls[Len(calls)].api = "update_stocks"
    /\ calls[Len(calls)].campaign = "fbs"
    /\ Len(calls) >= 3

(***************************************************************************)
(* C11: seller.main and market.main run together, in any interleaving of   *)
(* their statements, are independent: each one ends as it does when it     *)
(* runs alone.  Alone, a run ends without an exception or with the error   *)
(* of a failed request, and once download_stock has read the spreadsheet   *)
(* the remnants list is the feed's, also through the extract, read and     *)
(* delete steps of download_stock.                                         *)
(***************************************************************************)
AfterRead(l) ==
    \/ l.pc \in {"remove", "create_stocks", "update_stocks", "upload_prices",
                 "create_prices", "update_price", "return"}
    \/ l.pc = "done" /\ l.exc = "none"

EndsAsAlone(l) ==
    /\ l.exc \in {"none"} \cup Errors
    /\ l.watch_remnants \in {<<>>, feed}
    /\ AfterRead(l) => l.watch_remnants = feed
    /\ l.pc = "raised" => l.entry = "market.main" /\ l.calls = <<>>

C11_RunsTogetherAreIndependent ==
    /\ entry \in MainEntries => EndsAsAlone(Locals)
    /\ suspended # NoProcess => EndsAsAlone(suspended[1])

\* The same statement about the run in hand only: it holds of every run
\* of one main on its own.
RunEndsAsAlone == entry \in MainEntries => EndsAsAlone(Locals)

(***************************************************************************)
(* C12 (as stated): create_stocks called twice with the same records and,  *)
(* each time, a fresh copy of the same offer ID list returns identical     *)
(* outputs; the call leaves in its offer ID argument exactly the offer IDs *)
(* no record matched, and leaves the records as they were.                 *)
(***************************************************************************)
CreateStocksReturnedAgain ==
    entry \in {"seller.create_stocks", "market.create_stocks"} /\ pc = "done_again"

\* The offer IDs of the argument that no record carries, in their order.
Unmatched == SelectSeq(arg.offer_ids, LAMBDA id : id \notin Codes(arg.watch_remnants))

ArgumentConsumed ==
    CreateStocksReturned \/ CreateStocksReturnedAgain =>
        /\ offer_ids = Unmatched
        /\ watch_remnants = arg.watch_remnants

Unstamped(lst) ==
    IF IsOzon THEN lst
    ELSE [i \in 1..Len(lst) |->
             [sku |-> lst[i].sku, warehouseId |-> lst[i].warehouseId,
              count |-> lst[i].items[1].count, type |-> lst[i].items[1].type]]

Stamps(lst) == { lst[i].items[1].updatedAt : i \in 1..Len(lst) }

SubmittedPrices == Concat(Payloads(CallsOf("update_price", "ozon")))

C13_PricesFromFullCatalog ==
    entry = "seller.main" /\ pc = "done" /\ exc = "none" =>
        /\ SubmittedPrices = seller_create_prices(feed, server["ozon"].catalog)
        /\ \A i \in 1..Len(feed) :
              feed[i].code \in ToSet(server["ozon"].catalog) =>
                  \E k \in 1..Len(SubmittedPrices) :
                      SubmittedPrices[k].offer_id = feed[i].code

(***************************************************************************)
(* C14: every stock entry create_stocks emits, and every stock entry       *)
(* submitted to a marketplace, has a count of at least 0, whatever the     *)
(* quantities of the records (">10", "1", or a numeric string, negative    *)
(* ones included).                                                         *)
(***************************************************************************)
SubmittedStocks == Concat(Payloads(CallsOf("update_stocks", campaign)))

C14_CountsNotNegative ==
    /\ \A k \in 1..Len(stocks) : EntryCount(stocks[k]) >= 0
    /\ InUploadRun =>
          \A k \in 1..Len(SubmittedStocks) : EntryCount(SubmittedStocks[k]) >= 0
====
